---- MODULE Spec2Model ----
(***************************************************************************)
(* Model of the LLM request orchestration core of zia-proper:              *)
(* src/services/geminiService.ts, first revision (lines 1-375):            *)
(* retry, callOpenRouter, callGeminiText, fallbackModelMap, generateText   *)
(* and generateBotResponse.                                                *)
(*                                                                         *)
(* One generateBotResponse call is followed from the moment it is issued   *)
(* to the moment its promise settles.  The call is suspended only at       *)
(* `await fn()` (a provider call in flight) and at                          *)
(* `await new Promise(r => setTimeout(r, ms))` (a backoff timer); one       *)
(* action models everything the code runs between two such suspensions.    *)
(*                                                                         *)
(* Strings are sequences of tokens.  A token is either one character of a  *)
(* provider text or a fragment of a message that the code looks for with   *)
(* includes()/startsWith() ("429", "busy", "(System:").                    *)
(***************************************************************************)
EXTENDS Integers, Sequences, FiniteSets, TLC

\* ---------------------------------------------------------------- bounds
\* longest raw provider text, in tokens
MaxTextLen == 2

\* longest conversation history, in turns
MaxHistLen == 2

\* most parts in the content of an image response
MaxParts == 2

\* ------------------------------------------------------------- constants
RETRY_LIMIT == 3

\* rate-limit waits shorter than the constant wait
RETRY_DELAYS_small == <<500, 1000, 2000>>

\* a schedule that shrinks instead of growing
RETRY_DELAYS_desc == <<3000, 2000, 1200>>

RETRY_DELAYS == <<1200, 2000, 3000>>

\* the constant wait of retry's line 55
DEFAULT_DELAY == 1000

\* the handler invocations of ChatView that are followed
MaxHandlers == 3

\* --------------------------------------------------------------- strings
SP == " "

TextChars == {SP, "h"}

Min(S) == CHOOSE x \in S : \A y \in S : x <= y

Max(S) == CHOOSE x \in S : \A y \in S : x >= y

\* String.prototype.trim: drops the leading and the trailing white space
Trim(s) ==
  LET idx == {k \in 1..Len(s) : s[k] # SP}
  IN  IF idx = {} THEN <<>> ELSE SubSeq(s, Min(idx), Max(idx))

\* String.prototype.includes, for a marker that is one token
Includes(s, tok) == \E k \in 1..Len(s) : s[k] = tok

\* err.message.startsWith("(System:")
StartsWithSystem(s) == Len(s) > 0 /\ s[1] = "(System:"

\* --------------------------------------------------------------- values
\* a JavaScript value that a promise settles with
Str(s) == [type |-> "string", s |-> s]

ErrorObj(m) == [type |-> "error", s |-> m]

\* the settlement of an async callback: ok = resolved, otherwise it threw
\* an Error whose message is s
Resolved(s) == [ok |-> TRUE, s |-> s]

Thrown(m) == [ok |-> FALSE, s |-> m]

\* ------------------------------------------------------- fixed messages
MSG_BUSY_TRY_AGAIN == <<"(System:", "System is temporarily", "busy", ". Try again.)">>

MSG_BUSY == <<"(System:", "System is temporarily", "busy", ".)">>

MSG_RETRY_FAILED == <<"Retry failed.">>

MSG_EMPTY_AI == <<"Empty AI response.">>

MSG_EMPTY_GEMINI == <<"Empty Gemini output.">>

MSG_OR_UNSUPPORTED == <<"(System:", "Unsupported OpenRouter model.)">>

MSG_OR_KEY == <<"(System:", "Invalid API Key.)">>

MSG_OR_429 == <<"(System:", "Provider", "busy", ", retry soon.)">>

MSG_OR_5XX == <<"(System:", "Provider internal error.)">>

MSG_OR_EMPTY == <<"(System:", "Empty model output.)">>

MSG_OR_BUSY == <<"(System:", "Provider temporarily", "busy", ".)">>

MsgHttp(status) == <<"(System:", "HTTP", ToString(status), ")">>

\* ---------------------------------------------------------------- models
GeminiModels ==
  {"gemini-2.5-pro", "gemini-flash-latest", "gemini-2.5-flash",
   "gemini-flash-lite-latest"}

OPENROUTER_MODELS == {"venice-dolphin-mistral-24b", "mistralai-devstral-2512"}

AIModelOption == GeminiModels \cup OPENROUTER_MODELS

fallbackModelMap ==
  [m \in {"gemini-2.5-pro", "gemini-flash-latest", "gemini-2.5-flash"} |->
     IF m = "gemini-2.5-flash" THEN "gemini-flash-lite-latest"
     ELSE "gemini-2.5-flash"]

\* ------------------------------------------------------ provider outcomes
Seqs(S, n) == UNION {[1..k -> S] : k \in 0..n}

\* the raw texts a provider can answer with (response.text, message.content)
RawTexts == Seqs(TextChars, MaxTextLen)

ERR_429 == <<"429", "RESOURCE_EXHAUSTED">>

ERR_BUSY == <<"server", "busy">>

ERR_500 == <<"500", "Internal error">>

ERR_KEY == <<"400", "API key not valid">>

ERR_NO_TEXT == <<"Cannot read properties of undefined (reading 'trim')">>

ERR_FETCH == <<"Failed to fetch">>

ERR_JSON == <<"Unexpected token in JSON">>

\* messages of the errors ai.models.generateContent rejects with
GeminiErrors == {ERR_429, ERR_BUSY, ERR_500, ERR_KEY}

\* what one ai.models.generateContent call can do: answer with a text,
\* answer without a text field, or reject
GeminiOutcomes ==
  [kind : {"text"}, s : RawTexts] \cup
  [kind : {"notext"}, s : {<<>>}] \cup
  [kind : {"error"}, s : GeminiErrors]

HttpStatuses == {401, 403, 404, 429, 500, 503}

\* what one fetch to the chat-completions endpoint can do
OpenRouterOutcomes ==
  [kind : {"network"}, status : {0}, s : {ERR_FETCH}] \cup
  [kind : {"http"}, status : HttpStatuses, s : {<<>>}] \cup
  [kind : {"badjson"}, status : {200}, s : {ERR_JSON}] \cup
  [kind : {"nocontent"}, status : {200}, s : {<<>>}] \cup
  [kind : {"content"}, status : {200}, s : RawTexts]

\* ------------------------------------------------------- pure functions
\* callGeminiText: `return response.text.trim()`; a rejected SDK call, or a
\* response without text, makes it throw
callGeminiText(o) ==
  CASE o.kind = "text"   -> Resolved(Trim(o.s))
    [] o.kind = "notext" -> Thrown(ERR_NO_TEXT)
    [] OTHER             -> Thrown(o.s)

\* the callback `primary` of generateText
primary(o) ==
  LET r == callGeminiText(o)
  IN  IF r.ok /\ Trim(r.s) = <<>> THEN Thrown(MSG_EMPTY_GEMINI) ELSE r

\* the anonymous callback of the fallback cycle
fallbackFn(o) == callGeminiText(o)

\* whatever fn() resolved to is returned, the empty string included
RetryAccepts_any(r) == r.ok

\* the test of line 43 inverted
RetryAccepts_inv(r) == r.ok /\ Trim(r.s) = <<>>

\* retry, lines 43-44: the result of fn() is returned
RetryAccepts(r) == r.ok /\ Trim(r.s) # <<>>

\* retry, lines 45 and 47: the error remembered for a failed attempt
RetryLastError(r) == IF r.ok THEN MSG_EMPTY_AI ELSE r.s

\* retry, line 50
IsRateLimit(msg) == Includes(msg, "429") \/ Includes(msg, "busy")

\* retry, lines 50-55: the timer started after the failed attempt i (0-based)
\* (RETRY_DELAYS[i] past the end of the array is undefined: a timer of 0 ms)
RetryDelay(r, i) ==
  IF ~r.ok /\ IsRateLimit(r.s)
  THEN IF i + 1 \in DOMAIN RETRY_DELAYS THEN RETRY_DELAYS[i + 1] ELSE 0
  ELSE DEFAULT_DELAY

\* one attempt too many
LoopContinues_more(i) == i <= RETRY_LIMIT

\* one attempt too few
LoopContinues_short(i) == i < RETRY_LIMIT - 1

\* retry, line 40: the loop condition
LoopContinues(i) == i < RETRY_LIMIT

\* the default of line 214 is the lite model
FallbackOf_lite(model) ==
  IF model \in DOMAIN fallbackModelMap THEN fallbackModelMap[model]
  ELSE "gemini-flash-lite-latest"

\* generateText, line 214
FallbackOf(model) ==
  IF model \in DOMAIN fallbackModelMap THEN fallbackModelMap[model]
  ELSE "gemini-2.5-flash"

\* the fallback of the fallback is tried as long as the map has an edge
OnExhausted_chain(cyc, sel, tgt) ==
  IF cyc = "primary" THEN [next |-> "fallback", model |-> FallbackOf(sel)]
  ELSE IF tgt \in DOMAIN fallbackModelMap
       THEN [next |-> "fallback", model |-> fallbackModelMap[tgt]]
       ELSE [next |-> "failed", model |-> tgt]

\* generateText, lines 211-223: what follows a retry cycle that threw
OnExhausted(cyc, sel, tgt) ==
  IF cyc = "primary" THEN [next |-> "fallback", model |-> FallbackOf(sel)]
  ELSE [next |-> "failed", model |-> tgt]

\* only the Venice model is routed to the aggregator
IsOpenRouterModel_venice(m) == m = "venice-dolphin-mistral-24b"

\* generateText, lines 193-196
IsOpenRouterModel(m) ==
  m = "venice-dolphin-mistral-24b" \/ m = "mistralai-devstral-2512"

\* the catch of lines 131-134 rethrows every error as it is
callOpenRouter_raw(o) ==
  CASE o.kind = "network" -> Thrown(o.s)
    [] o.kind = "http" ->
         IF o.status = 401 \/ o.status = 403 THEN Thrown(MSG_OR_KEY)
         ELSE IF o.status = 429 THEN Thrown(MSG_OR_429)
         ELSE IF o.status >= 500 THEN Thrown(MSG_OR_5XX)
         ELSE Thrown(MsgHttp(o.status))
    [] o.kind = "badjson" -> Thrown(o.s)
    [] o.kind = "nocontent" -> Thrown(MSG_OR_EMPTY)
    [] OTHER ->
         IF Trim(o.s) = <<>> THEN Thrown(MSG_OR_EMPTY)
         ELSE Resolved(Trim(o.s))

\* callOpenRouter, lines 96-134
callOpenRouter(o) ==
  LET inner ==
        CASE o.kind = "network" -> Thrown(o.s)
          [] o.kind = "http" ->
               IF o.status = 401 \/ o.status = 403 THEN Thrown(MSG_OR_KEY)
               ELSE IF o.status = 429 THEN Thrown(MSG_OR_429)
               ELSE IF o.status >= 500 THEN Thrown(MSG_OR_5XX)
               ELSE Thrown(MsgHttp(o.status))
          [] o.kind = "badjson" -> Thrown(o.s)
          [] o.kind = "nocontent" -> Thrown(MSG_OR_EMPTY)
          [] OTHER ->
               IF Trim(o.s) = <<>> THEN Thrown(MSG_OR_EMPTY)
               ELSE Resolved(Trim(o.s))
  IN  IF inner.ok \/ StartsWithSystem(inner.s) THEN inner
      ELSE Thrown(MSG_OR_BUSY)

\* a settled promise
Fulfilled(v) == [status |-> "resolved", val |-> v]

Rejected(v) == [status |-> "rejected", val |-> v]

Unsettled == [status |-> "pending", val |-> Str(<<>>)]

\* `return err` instead of `return err.message`
OpenRouterReturn_err(r) ==
  IF r.ok THEN Fulfilled(Str(r.s)) ELSE Fulfilled(ErrorObj(r.s))

\* generateText, lines 197-201
OpenRouterReturn(r) == Fulfilled(Str(r.s))

\* generateText, line 212 / 217: the value retry returned is returned
RetryReturn(r) == Fulfilled(Str(r.s))

\* generateText, line 221
FallbackFailed == Fulfilled(Str(MSG_BUSY_TRY_AGAIN))

\* generateBotResponse, lines 238-254: the try/catch around generateText
generateBotResponse(gt) ==
  IF gt.status = "rejected" THEN Fulfilled(Str(MSG_BUSY)) ELSE gt

\* --------------------------------------------------- reply suggestion
\* the double-quote character
QUOTE == "\""

\* r.replace('"', ""): only the first occurrence is removed
StripQuotes_first(s) ==
  LET idx == {k \in 1..Len(s) : s[k] = QUOTE}
  IN  IF idx = {} THEN s
      ELSE SubSeq(s, 1, Min(idx) - 1) \o SubSeq(s, Min(idx) + 1, Len(s))

\* line 268: r.replace(/"/g, "")
StripQuotes(s) == SelectSeq(s, LAMBDA ch : ch # QUOTE)

\* generateUserResponseSuggestion, lines 266-271: the try/catch around
\* generateText(prompt, history, "gemini-2.5-flash"); the catch returns the
\* one character U+2026
generateUserResponseSuggestion(gt) ==
  IF gt.status = "rejected" THEN Fulfilled(Str(<<"U+2026">>))
  ELSE Fulfilled(Str(StripQuotes(gt.val.s)))

\* ------------------------------------------------------ request formatter
\* the conversation histories the UI can pass (ChatMessage[])
Histories == Seqs([sender : {"user", "bot"}, text : {<<"h">>}], MaxHistLen)

\* the system prompt: xyz(...) for generateBotResponse, the story template
\* for generateStory
SystemPrompt(fn) ==
  IF fn = "generateBotResponse"
  THEN <<"personality", "identity rules", "dynamic instructions">>
  ELSE <<"scenario", "characters", "profiles">>

\* callGeminiText, lines 146-152: contents without the placeholder turn
GeminiContents_noinject(h) ==
  [k \in DOMAIN h |->
     [role |-> IF h[k].sender = "user" THEN "user" ELSE "model",
      text |-> h[k].text]]

\* callGeminiText, lines 146-152 (and 727-737): the `contents` it sends
GeminiContents(h) ==
  LET contents == [k \in DOMAIN h |->
                     [role |-> IF h[k].sender = "user" THEN "user" ELSE "model",
                      text |-> h[k].text]]
  IN  IF Len(contents) = 0
      THEN Append(contents, [role |-> "user", text |-> <<"Yo.">>])
      ELSE contents

\* callOpenRouter, lines 84-94 (and 680-691): the `messages` it sends
OpenRouterMessages(prompt, h) ==
  LET messages == <<[role |-> "system", text |-> prompt]>> \o
                  [k \in DOMAIN h |->
                     [role |-> IF h[k].sender = "user" THEN "user" ELSE "assistant",
                      text |-> h[k].text]]
  IN  IF Len(messages) = 1
      THEN Append(messages, [role |-> "user", text |-> <<"Hello.">>])
      ELSE messages

\* the placeholder turn is pushed onto the caller's array
HistoryAfterFormat_push(h) ==
  IF Len(h) = 0 THEN Append(h, [sender |-> "user", text |-> <<"Yo.">>]) ELSE h

\* the caller's history after a payload was built from it: history.map
\* makes a new array, and the placeholder is pushed onto that new array
HistoryAfterFormat(h) == h

\* ------------------------------------- the revision of lines 620-980
RETRY_DELAYS_R3 == <<1000, 2000, 3000>>

MSG3_ALL_FAILED == <<"All retry attempts failed.">>

MSG3_EMPTY_AI == <<"Empty response from AI.">>

MSG3_EMPTY_VENICE == <<"Empty response from Venice.">>

MSG3_EMPTY == <<"Empty response.">>

MSG3_EMPTY_FALLBACK == <<"Empty fallback response.">>

MSG3_VENICE_BUSY == <<"(System:", "Venice is", "busy", ", try again in a moment.)">>

MsgVeniceHttp(status) == <<"OpenRouter API Error:", ToString(status), "status text">>

\* the models generateText of lines 776-819 tells apart
ModelsR3 == GeminiModels \cup {"venice-dolphin-mistral-24b"}

fallbackModelMapR3 ==
  [m \in {"gemini-2.5-pro", "gemini-flash-latest", "gemini-2.5-flash",
          "venice-dolphin-mistral-24b"} |->
     IF m = "gemini-2.5-flash" THEN "gemini-flash-lite-latest"
     ELSE "gemini-2.5-flash"]

\* retry, line 655
isQuotaError(msg) ==
  \/ Includes(msg, "429") \/ Includes(msg, "Quota exceeded")
  \/ Includes(msg, "RESOURCE_EXHAUSTED") \/ Includes(msg, "Too Many Requests")

\* retry, lines 650 and 653
RetryLastErrorR3(r) == IF r.ok THEN MSG3_EMPTY_AI ELSE r.s

\* retry, lines 661-669: the timer started after the failed attempt i
RetryDelayR3(r, i) ==
  IF ~r.ok /\ (isQuotaError(r.s) \/ i < RETRY_LIMIT - 1)
  THEN IF i + 1 \in DOMAIN RETRY_DELAYS_R3 THEN RETRY_DELAYS_R3[i + 1] ELSE 3000
  ELSE 1000

\* callOpenRouterVenice, lines 674-718
callOpenRouterVenice(o) ==
  CASE o.kind = "network"   -> Thrown(o.s)
    [] o.kind = "http"      -> Thrown(MsgVeniceHttp(o.status))
    [] o.kind = "badjson"   -> Thrown(o.s)
    [] o.kind = "nocontent" -> Resolved(<<>>)
    [] OTHER                -> Resolved(Trim(o.s))

\* generateText, lines 785-789: the callback of the Venice retry cycle
veniceFn(o) ==
  LET r == callOpenRouterVenice(o)
  IN  IF r.ok /\ Trim(r.s) = <<>> THEN Thrown(MSG3_EMPTY_VENICE) ELSE r

\* generateText, lines 797-801
primaryApiCall(o) ==
  LET r == callGeminiText(o)
  IN  IF r.ok /\ Trim(r.s) = <<>> THEN Thrown(MSG3_EMPTY) ELSE r

\* generateText, lines 812-816
fallbackApiCall(o) ==
  LET r == callGeminiText(o)
  IN  IF r.ok /\ Trim(r.s) = <<>> THEN Thrown(MSG3_EMPTY_FALLBACK) ELSE r

\* generateText, line 807
FallbackOfR3(model) ==
  IF model \in DOMAIN fallbackModelMapR3 THEN fallbackModelMapR3[model]
  ELSE "gemini-2.5-flash"

\* generateText, lines 783-818: what follows a retry cycle that threw; the
\* fallback cycle's error is not caught
OnExhaustedR3(cyc, sel, tgt) ==
  IF cyc = "venice" THEN [next |-> "failed", model |-> tgt]
  ELSE IF cyc = "primary"
       THEN [next |-> "fallback", model |-> FallbackOfR3(sel)]
       ELSE [next |-> "rejected", model |-> tgt]

\* generateText, line 793
VeniceFailed == Fulfilled(Str(MSG3_VENICE_BUSY))

\* generateStory, lines 288-309 and 885-911: `return await generateText(...)`
generateStory(gt) == gt

\* ------------------------------------ single-shot functions, lines 274-375
TextUtils ==
  {"generateDynamicDescription", "generateScenarioIdea", "generateCodePrompt"}

\* the string each utility returns from its catch
UtilFallback(fn) ==
  CASE fn = "generateDynamicDescription" -> <<"Ready to talk.">>
    [] fn = "generateScenarioIdea"       -> <<"Something unexpected happens.">>
    [] OTHER                             -> <<"Error.">>

\* `res.text.trim()` inside the try of a utility
UtilText(o) ==
  CASE o.kind = "text"   -> Resolved(Trim(o.s))
    [] o.kind = "notext" -> Thrown(ERR_NO_TEXT)
    [] OTHER             -> Thrown(o.s)

\* a utility without its try/catch
UtilReturn_nocatch(fn, r) ==
  IF r.ok THEN Fulfilled(Str(r.s)) ELSE Rejected(ErrorObj(r.s))

\* lines 277-285, 323-331, 366-374: the text, or the fallback of the catch
UtilReturn(fn, r) ==
  IF r.ok THEN Fulfilled(Str(r.s)) ELSE Fulfilled(Str(UtilFallback(fn)))

MSG_IMAGE_MISSING == <<"Image missing.">>

MSG_IMAGE_FAILED == <<"Image generation failed.">>

ERR_NO_CANDIDATES == <<"Cannot read properties of undefined (reading '0')">>

\* the parts of res.candidates[0].content.parts
PartKinds ==
  {[inline |-> FALSE, data |-> <<"caption">>],
   [inline |-> TRUE, data |-> <<"img1">>],
   [inline |-> TRUE, data |-> <<"img2">>]}

\* what the image request can do: answer with parts, answer without
\* candidates, or reject
ImageOutcomes ==
  [kind : {"parts"}, s : {<<>>}, parts : Seqs(PartKinds, MaxParts)] \cup
  [kind : {"nocandidates"}, s : {ERR_NO_CANDIDATES}, parts : {<<>>}] \cup
  [kind : {"error"}, s : GeminiErrors, parts : {<<>>}]

\* generateImage, lines 346-356: the body of the try
ImageTry(o) ==
  CASE o.kind = "parts" ->
         LET idx == {k \in DOMAIN o.parts : o.parts[k].inline}
         IN  IF idx = {} THEN Thrown(MSG_IMAGE_MISSING)
             ELSE Resolved(o.parts[Min(idx)].data)
    [] OTHER -> Thrown(o.s)

\* generateImage, lines 338-359: every error of the try is replaced
generateImage(r) ==
  IF r.ok THEN Fulfilled(Str(r.s)) ELSE Rejected(ErrorObj(MSG_IMAGE_FAILED))

\* a data URL, and null
SourceImages == {<<>>, <<"data", ":", "image/png", ";", "base64", ",", "AAAA">>}

FirstIndex(s, tok) == Min({k \in 1..Len(s) : s[k] = tok} \cup {Len(s) + 1})

\* generateImage, line 342: sourceImage.match(/:(.*?);/)?.[1] || "image/jpeg"
MimeOf(src) ==
  LET a == FirstIndex(src, ":")
      b == a + FirstIndex(SubSeq(src, a + 1, Len(src)), ";")
  IN  IF a > Len(src) \/ b > Len(src) \/ b = a + 1 THEN <<"image/jpeg">>
      ELSE SubSeq(src, a + 1, b - 1)

\* fileToGenerativePart, lines 23-28: base64Data.split(",")[1]
Base64Of(src) ==
  LET a == FirstIndex(src, ",")
      rest == SubSeq(src, a + 1, Len(src))
  IN  SubSeq(rest, 1, FirstIndex(rest, ",") - 1)

\* generateImage, lines 339-344: the parts of the request
ImageRequestParts(src) ==
  (IF src # <<>>
   THEN <<[role |-> "inlineData", text |-> MimeOf(src) \o Base64Of(src)]>>
   ELSE <<>>) \o <<[role |-> "text", text |-> <<"prompt">>]>>

\* ----------------------------------------------------------------- state
VARIABLES
  pc,          \* "idle" | "call" (provider call in flight) | "wait" (timer) | "done"
  cycle,       \* "none" | "openrouter" | "primary" | "fallback"
  selectedAI,  \* the model generateBotResponse was called with
  target,      \* the model of the running retry cycle
  i,           \* retry's loop index
  lastError,   \* retry's lastError (its message)
  calls,       \* provider calls made so far, with how each one ended
  waits,       \* backoff timers started so far
  result,      \* the promise the public function returned
  api,         \* the public function that was called, and the revision it is in
  history,     \* the caller's conversation history array
  stored,      \* the record localforage holds under STORAGE_KEY
  tasks        \* the invocations of the application's async handlers

vars == <<pc, cycle, selectedAI, target, i, lastError, calls, waits, result,
          api, history, stored, tasks>>

\* the state outside the generation service
appVars == <<stored, tasks>>

\* the state of the generation service
serviceVars ==
  <<pc, cycle, selectedAI, target, i, lastError, calls, waits, result, api>>

\* the payload of a provider call of the given cycle
Payload(cyc) ==
  IF cyc \in {"openrouter", "venice"}
  THEN OpenRouterMessages(SystemPrompt(api.fn), history)
  ELSE IF cyc = "single"
       THEN IF api.fn = "generateImage" THEN ImageRequestParts(api.arg)
            ELSE <<[role |-> "user", text |-> <<"prompt">>]>>
       ELSE GeminiContents(history)

Call(cyc, m) ==
  [cycle |-> cyc, model |-> m, state |-> "pending", s |-> <<>>,
   payload |-> Payload(cyc)]

\* what the public function does with generateText's promise
PublicReturn(gt) ==
  CASE api.fn = "generateBotResponse" -> generateBotResponse(gt)
    [] api.fn = "generateUserResponseSuggestion" ->
         generateUserResponseSuggestion(gt)
    [] OTHER -> generateStory(gt)

\* the operators of retry and generateText, by revision
InitialError == IF api.rev = 1 THEN MSG_RETRY_FAILED ELSE MSG3_ALL_FAILED

LastErrorOf(r) == IF api.rev = 1 THEN RetryLastError(r) ELSE RetryLastErrorR3(r)

DelayOf(r, k) == IF api.rev = 1 THEN RetryDelay(r, k) ELSE RetryDelayR3(r, k)

ExhaustedOf(cyc, sel, tgt) ==
  IF api.rev = 1 THEN OnExhausted(cyc, sel, tgt) ELSE OnExhaustedR3(cyc, sel, tgt)

\* the last call of `calls`, settled with r
SettleLast(r) ==
  [calls EXCEPT ![Len(calls)] =
     [@ EXCEPT !.state = IF r.ok THEN "ok" ELSE "thrown", !.s = r.s]]

\* no call has been issued
Idle ==
  /\ pc = "idle"
  /\ cycle = "none"
  /\ selectedAI = "none"
  /\ target = "none"
  /\ i = 0
  /\ lastError = <<>>
  /\ calls = <<>>
  /\ waits = <<>>
  /\ result = Unsettled
  /\ stored = <<>>
  /\ tasks = <<>>

\* generateBotResponse of lines 230-255 is about to be called with the
\* history [{sender: "user", text: "h"}]
Init ==
  /\ Idle
  /\ api = [fn |-> "generateBotResponse", rev |-> 1, arg |-> <<>>]
  /\ history = <<[sender |-> "user", text |-> <<"h">>]>>

\* generateBotResponse(history, botProfile, m) runs up to its first await:
\* generateText, then callOpenRouter's fetch or retry's first fn()
Start(m) ==
  /\ UNCHANGED appVars
  /\ pc = "idle"
  /\ api.fn \in {"generateBotResponse", "generateStory",
                 "generateUserResponseSuggestion"}
  /\ api.rev = 3 => m \in ModelsR3
  /\ api.fn = "generateUserResponseSuggestion" => m = "gemini-2.5-flash"
  /\ selectedAI' = m
  /\ target' = m
  /\ waits' = waits
  /\ api' = api
  /\ IF api.rev = 1 /\ IsOpenRouterModel(m)
     THEN /\ cycle' = "openrouter"
          /\ UNCHANGED <<i, lastError>>
          /\ IF m \in OPENROUTER_MODELS
             THEN pc' = "call" /\ calls' = Append(calls, Call("openrouter", m))
                  /\ result' = result
                  /\ history' = HistoryAfterFormat(history)
             ELSE pc' = "done" /\ calls' = calls
                  /\ result' = PublicReturn(
                                 OpenRouterReturn(Thrown(MSG_OR_UNSUPPORTED)))
                  /\ history' = history
     ELSE /\ cycle' = IF api.rev = 3 /\ m = "venice-dolphin-mistral-24b"
                      THEN "venice" ELSE "primary"
          /\ i' = 0
          /\ lastError' = InitialError
          /\ pc' = "call"
          /\ calls' = Append(calls, Call(cycle', m))
          /\ result' = result
          /\ history' = HistoryAfterFormat(history)

\* the fetch of callOpenRouter settles; generateText returns the text or
\* the error's message
OpenRouterSettles(o) ==
  /\ UNCHANGED appVars
  /\ pc = "call" /\ cycle = "openrouter"
  /\ LET r == callOpenRouter(o)
     IN  /\ calls' = SettleLast(r)
         /\ result' = PublicReturn(OpenRouterReturn(r))
  /\ pc' = "done"
  /\ UNCHANGED <<cycle, selectedAI, target, i, lastError, waits, api, history>>

\* the provider call of the running attempt settles: retry returns the
\* result, or records the failure and starts the backoff timer
\* retry, after `await fn()` settled with r
RetryStep(r) ==
  /\ UNCHANGED appVars
  /\ calls' = SettleLast(r)
  /\ IF RetryAccepts(r)
     THEN /\ pc' = "done"
          /\ result' = PublicReturn(RetryReturn(r))
          /\ UNCHANGED <<lastError, waits>>
     ELSE /\ pc' = "wait"
          /\ lastError' = LastErrorOf(r)
          /\ waits' = Append(waits, [cycle |-> cycle, i |-> i,
                                     ms |-> DelayOf(r, i)])
          /\ result' = result
  /\ UNCHANGED <<cycle, selectedAI, target, i, api, history>>

GeminiSettles(o) ==
  /\ pc = "call" /\ cycle \in {"primary", "fallback"}
  /\ RetryStep(IF api.rev = 1
               THEN IF cycle = "primary" THEN primary(o) ELSE fallbackFn(o)
               ELSE IF cycle = "primary" THEN primaryApiCall(o)
                    ELSE fallbackApiCall(o))

\* the fetch of the running Venice attempt settles (lines 785-789)
VeniceSettles(o) ==
  /\ pc = "call" /\ cycle = "venice"
  /\ RetryStep(veniceFn(o))

\* the backoff timer fires: i++, then the next attempt, or retry throws
\* lastError and generateText moves to the fallback cycle or gives up
TimerFires ==
  /\ UNCHANGED appVars
  /\ pc = "wait"
  /\ IF LoopContinues(i + 1)
     THEN /\ i' = i + 1
          /\ pc' = "call"
          /\ calls' = Append(calls, Call(cycle, target))
          /\ history' = HistoryAfterFormat(history)
          /\ UNCHANGED <<cycle, target, lastError, result>>
     ELSE LET nx == ExhaustedOf(cycle, selectedAI, target)
          IN  IF nx.next = "fallback"
              THEN /\ cycle' = "fallback"
                   /\ target' = nx.model
                   /\ i' = 0
                   /\ lastError' = InitialError
                   /\ pc' = "call"
                   /\ calls' = Append(calls, Call("fallback", nx.model))
                   /\ history' = HistoryAfterFormat(history)
                   /\ result' = result
              ELSE /\ pc' = "done"
                   /\ result' =
                        PublicReturn(
                          IF nx.next = "rejected" THEN Rejected(ErrorObj(lastError))
                          ELSE IF cycle = "venice" THEN VeniceFailed
                          ELSE FallbackFailed)
                   /\ UNCHANGED <<cycle, target, i, lastError, calls, history>>
  /\ UNCHANGED <<selectedAI, waits, api>>

\* a single-shot function runs up to its await of ai.models.generateContent
UtilStart ==
  /\ UNCHANGED appVars
  /\ pc = "idle"
  /\ api.fn \in TextUtils \cup {"generateImage"}
  /\ pc' = "call"
  /\ cycle' = "single"
  /\ target' = IF api.fn = "generateImage" THEN "gemini-2.5-flash-image"
               ELSE "gemini-2.5-flash"
  /\ calls' = Append(calls, Call("single", target'))
  /\ UNCHANGED <<selectedAI, i, lastError, waits, result, api, history>>

\* the provider call of a text utility settles
UtilSettles(o) ==
  /\ UNCHANGED appVars
  /\ pc = "call" /\ cycle = "single" /\ api.fn \in TextUtils
  /\ calls' = SettleLast(UtilText(o))
  /\ result' = UtilReturn(api.fn, UtilText(o))
  /\ pc' = "done"
  /\ UNCHANGED <<cycle, selectedAI, target, i, lastError, waits, api, history>>

\* the provider call of generateImage settles
ImageSettles(o) ==
  /\ UNCHANGED appVars
  /\ pc = "call" /\ cycle = "single" /\ api.fn = "generateImage"
  /\ calls' = SettleLast(ImageTry(o))
  /\ result' = generateImage(ImageTry(o))
  /\ pc' = "done"
  /\ UNCHANGED <<cycle, selectedAI, target, i, lastError, waits, api, history>>

Next ==
  \/ \E m \in AIModelOption : Start(m)
  \/ \E o \in OpenRouterOutcomes : OpenRouterSettles(o)
  \/ \E o \in GeminiOutcomes : GeminiSettles(o)
  \/ TimerFires

Spec == Init /\ [][Next]_vars

\* every provider call and every timer eventually completes
FairSpec ==
  /\ Spec
  /\ WF_vars(\E o \in OpenRouterOutcomes : OpenRouterSettles(o))
  /\ WF_vars(\E o \in GeminiOutcomes : GeminiSettles(o))
  /\ WF_vars(TimerFires)

\* ----------------------------------------- every public function
\* the provider outcomes followed for the public functions
ApiGeminiOutcomes ==
  {o \in GeminiOutcomes :
     \/ o.kind = "text" /\ Len(o.s) <= 1
     \/ o.kind = "error" /\ o.s \in {ERR_429, ERR_500}}

\* a public function is about to be called: generateBotResponse (lines
\* 230-255) with any history, generateStory (lines 288-309 and 885-911),
\* which passes [], or a single-shot function
ApiInit ==
  /\ Idle
  /\ \/ /\ api = [fn |-> "generateBotResponse", rev |-> 1, arg |-> <<>>]
        /\ history \in Histories
     \/ /\ api \in [fn : {"generateStory"}, rev : {1, 3}, arg : {<<>>}]
        /\ history = <<>>
     \/ /\ api \in [fn : TextUtils, rev : {1}, arg : {<<>>}]
                  \cup [fn : {"generateImage"}, rev : {1}, arg : SourceImages]
        /\ history = <<>>

ApiNext ==
  \/ \E m \in AIModelOption : Start(m)
  \/ \E o \in OpenRouterOutcomes : OpenRouterSettles(o)
  \/ \E o \in OpenRouterOutcomes : VeniceSettles(o)
  \/ \E o \in ApiGeminiOutcomes : GeminiSettles(o)
  \/ TimerFires
  \/ UtilStart
  \/ \E o \in GeminiOutcomes : UtilSettles(o)
  \/ \E o \in ImageOutcomes : ImageSettles(o)

ApiSpec == ApiInit /\ [][ApiNext]_vars

\* ------------------------------------------- two calls in flight at once
\* Two generateBotResponse calls (lines 230-255) share the event loop.  In
\* this specification every variable holds one value per invocation: pc,
\* cycle, selectedAI, target, calls and result are indexed by the call, and
\* retry's locals i and lastError by the frame of the retry invocation.
CallIds == {1, 2}

ConcModels == {"gemini-2.5-pro", "gemini-flash-lite-latest"}

ConcOutcomes ==
  {o \in GeminiOutcomes :
     \/ o.kind = "text" /\ o.s = <<"h">>
     \/ o.kind = "error" /\ o.s \in {ERR_429, ERR_500}}

\* i and lastError live at module level, shared by all invocations
FrameOf_shared(c) == 1

\* retry, lines 38 and 40: `let lastError` and `let i` are locals of the
\* invocation, so every call of retry has its own
FrameOf(c) == c

ConcInit ==
  /\ pc = [c \in CallIds |-> "idle"]
  /\ cycle = [c \in CallIds |-> "none"]
  /\ selectedAI = [c \in CallIds |-> "none"]
  /\ target = [c \in CallIds |-> "none"]
  /\ i = [f \in CallIds |-> 0]
  /\ lastError = [f \in CallIds |-> <<>>]
  /\ calls = [c \in CallIds |-> <<>>]
  /\ waits = <<>>
  /\ result = [c \in CallIds |-> Unsettled]
  /\ stored = <<>>
  /\ tasks = <<>>
  /\ api = [fn |-> "generateBotResponse", rev |-> 1, arg |-> <<>>]
  /\ history = <<[sender |-> "user", text |-> <<"h">>]>>

\* call c is issued and runs up to retry's first `await fn()`
ConcStart(c, m) ==
  /\ UNCHANGED appVars
  /\ pc[c] = "idle"
  /\ ~IsOpenRouterModel(m)
  /\ pc' = [pc EXCEPT ![c] = "call"]
  /\ cycle' = [cycle EXCEPT ![c] = "primary"]
  /\ selectedAI' = [selectedAI EXCEPT ![c] = m]
  /\ target' = [target EXCEPT ![c] = m]
  /\ i' = [i EXCEPT ![FrameOf(c)] = 0]
  /\ lastError' = [lastError EXCEPT ![FrameOf(c)] = MSG_RETRY_FAILED]
  /\ calls' = [calls EXCEPT ![c] = Append(@, Call("primary", m))]
  /\ history' = HistoryAfterFormat(history)
  /\ UNCHANGED <<waits, result, api>>

\* the provider call of call c settles
ConcSettles(c, o) ==
  /\ UNCHANGED appVars
  /\ pc[c] = "call"
  /\ LET r == IF cycle[c] = "primary" THEN primary(o) ELSE fallbackFn(o)
     IN  /\ calls' = [calls EXCEPT ![c][Len(calls[c])] =
                        [@ EXCEPT !.state = IF r.ok THEN "ok" ELSE "thrown",
                                  !.s = r.s]]
         /\ IF RetryAccepts(r)
            THEN /\ pc' = [pc EXCEPT ![c] = "done"]
                 /\ result' = [result EXCEPT ![c] =
                                 generateBotResponse(RetryReturn(r))]
                 /\ lastError' = lastError
            ELSE /\ pc' = [pc EXCEPT ![c] = "wait"]
                 /\ lastError' = [lastError EXCEPT ![FrameOf(c)] =
                                    RetryLastError(r)]
                 /\ result' = result
  /\ UNCHANGED <<cycle, selectedAI, target, i, waits, api, history>>

\* the backoff timer of call c fires
ConcTimer(c) ==
  /\ UNCHANGED appVars
  /\ pc[c] = "wait"
  /\ LET f == FrameOf(c)
     IN  IF LoopContinues(i[f] + 1)
         THEN /\ i' = [i EXCEPT ![f] = @ + 1]
              /\ pc' = [pc EXCEPT ![c] = "call"]
              /\ calls' = [calls EXCEPT ![c] = Append(@, Call(cycle[c], target[c]))]
              /\ history' = HistoryAfterFormat(history)
              /\ UNCHANGED <<cycle, target, lastError, result>>
         ELSE LET nx == OnExhausted(cycle[c], selectedAI[c], target[c])
              IN  IF nx.next = "fallback"
                  THEN /\ cycle' = [cycle EXCEPT ![c] = "fallback"]
                       /\ target' = [target EXCEPT ![c] = nx.model]
                       /\ i' = [i EXCEPT ![f] = 0]
                       /\ lastError' = [lastError EXCEPT ![f] = MSG_RETRY_FAILED]
                       /\ pc' = [pc EXCEPT ![c] = "call"]
                       /\ calls' = [calls EXCEPT ![c] =
                                      Append(@, Call("fallback", nx.model))]
                       /\ history' = HistoryAfterFormat(history)
                       /\ result' = result
                  ELSE /\ pc' = [pc EXCEPT ![c] = "done"]
                       /\ result' = [result EXCEPT ![c] =
                                       generateBotResponse(FallbackFailed)]
                       /\ UNCHANGED <<cycle, target, i, lastError, calls, history>>
  /\ UNCHANGED <<selectedAI, waits, api>>

ConcNext ==
  \/ \E c \in CallIds, m \in ConcModels : ConcStart(c, m)
  \/ \E c \in CallIds, o \in ConcOutcomes : ConcSettles(c, o)
  \/ \E c \in CallIds : ConcTimer(c)

ConcSpec == ConcInit /\ [][ConcNext]_vars

\* ------------------------------------ the reply suggestion, lines 257-272
\* provider texts over the characters that matter to the quote stripping
SuggestOutcomes ==
  [kind : {"text"}, s : Seqs({QUOTE, SP, "h"}, MaxTextLen)] \cup
  [kind : {"notext"}, s : {<<>>}] \cup
  [kind : {"error"}, s : {ERR_429, ERR_500}]

\* generateUserResponseSuggestion (lines 257-272) is about to be called
SuggestInit ==
  /\ Idle
  /\ api = [fn |-> "generateUserResponseSuggestion", rev |-> 1, arg |-> <<>>]
  /\ history \in Histories

SuggestNext ==
  \/ \E m \in AIModelOption : Start(m)
  \/ \E o \in SuggestOutcomes : GeminiSettles(o)
  \/ TimerFires

SuggestSpec == SuggestInit /\ [][SuggestNext]_vars

\* ------------------------------------------------ the rate-limit markers
\* provider rejections whose message holds one rate-limit marker each, a
\* 500, and a text
MarkerOutcomes ==
  [kind : {"error"},
   s : {ERR_429, <<"Quota exceeded">>, <<"RESOURCE_EXHAUSTED">>,
        <<"Too Many Requests">>, ERR_500}] \cup
  [kind : {"text"}, s : {<<"h">>}]

\* generateBotResponse of lines 230-255 on a Gemini model, the provider
\* failing with each kind of rate-limit message
MarkerNext ==
  \/ \E m \in GeminiModels : Start(m)
  \/ \E o \in MarkerOutcomes : GeminiSettles(o)
  \/ TimerFires

MarkerSpec == Init /\ [][MarkerNext]_vars

\* ------------------------------ src/unnamed/part_001, lines 1-436
\* This revision of the service is modelled with api.rev = 4.
RETRY_DELAYS_P1 == <<1000, 2000, 4000>>

MSG_P1_EMPTY_RAW == <<"Empty response">>

MSG_P1_EMPTY == <<"Empty response", ".">>

MSG_P1_EMPTY_FALLBACK == <<"Empty fallback response.">>

MSG_P1_HEAVY ==
  <<"(System:", "Gemini is handling heavy traffic. Try again after a few seconds.)">>

\* a quota rejection whose message has no "429"
ERR_P1_QUOTA == <<"Quota", " exceeded for metric">>

\* the provider outcomes followed: any text, no text field, a rejection
OutcomesP1 ==
  [kind : {"text"}, s : RawTexts] \cup
  [kind : {"notext"}, s : {<<>>}] \cup
  [kind : {"error"}, s : {ERR_429, ERR_P1_QUOTA, ERR_500, ERR_KEY}]

\* callGeminiText, lines 205-223: `if (!response.text) throw ...`, then trim
callGeminiTextP1(o) ==
  CASE o.kind = "text" ->
         IF o.s = <<>> THEN Thrown(MSG_P1_EMPTY_RAW) ELSE Resolved(Trim(o.s))
    [] o.kind = "notext" -> Thrown(MSG_P1_EMPTY_RAW)
    [] OTHER -> Thrown(o.s)

\* generateText, lines 253-257
primaryApiCallP1(o) ==
  LET r == callGeminiTextP1(o)
  IN  IF r.ok /\ Trim(r.s) = <<>> THEN Thrown(MSG_P1_EMPTY) ELSE r

\* generateText, lines 266-270
fallbackApiCallP1(o) ==
  LET r == callGeminiTextP1(o)
  IN  IF r.ok /\ Trim(r.s) = <<>> THEN Thrown(MSG_P1_EMPTY_FALLBACK) ELSE r

\* the callbacks of generateDynamicDescription (lines 332-337) and
\* generateScenarioIdea (lines 381-387): `return res.text.trim()`
UtilCallP1(o) ==
  CASE o.kind = "text"   -> Resolved(Trim(o.s))
    [] o.kind = "notext" -> Thrown(ERR_NO_TEXT)
    [] OTHER             -> Thrown(o.s)

\* retry, lines 46 and 62
isQuotaP1(msg) ==
  Includes(msg, "429") \/ Includes(msg, "Quota") \/ Includes(msg, "ResourceExhausted")

\* a rate-limited call is retried like any other
QuotaBreaks_never(msg, k) == FALSE

\* retry, line 49: `if (isQuota && i > 0) break`
QuotaBreaks(msg, k) == isQuotaP1(msg) /\ k > 0

\* retry, lines 59-75: the error thrown after the loop
FormatErrorP1(msg) ==
  IF isQuotaP1(msg) THEN MSG_P1_HEAVY
  ELSE IF Includes(msg, "500") \/ Includes(msg, "Internal")
       THEN <<"(System:", "Gemini internal error. Please resend your message.)">>
  ELSE IF Includes(msg, "fetch") \/ Includes(msg, "network")
          \/ Includes(msg, "Failed to fetch")
       THEN <<"(System:", "Network issue. Check your connection.)">>
  ELSE IF Includes(msg, "SyntaxError") \/ Includes(msg, "JSON")
       THEN <<"(System:", "Unexpected response. Please resend the message.)">>
  ELSE msg

\* retry, lines 35-56: what follows attempt k (0-based) settled with r
RetryNextP1(r, k) ==
  IF r.ok THEN [next |-> "return", s |-> r.s, ms |-> 0]
  ELSE IF Includes(r.s, "Empty response")
       THEN [next |-> "throw", s |-> r.s, ms |-> 0]
  ELSE IF QuotaBreaks(r.s, k)
       THEN [next |-> "throw", s |-> FormatErrorP1(r.s), ms |-> 0]
  ELSE IF k < Len(RETRY_DELAYS_P1) - 1
       THEN [next |-> "wait", s |-> r.s, ms |-> RETRY_DELAYS_P1[k + 1]]
  ELSE [next |-> "throw", s |-> FormatErrorP1(r.s), ms |-> 0]

\* generateText, lines 271-279: the catch around the fallback retry
FallbackFailedP1(err) ==
  IF StartsWithSystem(err) THEN Fulfilled(Str(err)) ELSE Fulfilled(Str(<<"(System:", "System is temporarily busy. Please try again.)">>))

UtilsP1 == {"generateDynamicDescription", "generateScenarioIdea"}

\* the catch blocks of lines 338-340 and 388-390
UtilFallbackP1(fn) ==
  IF fn = "generateDynamicDescription" THEN <<"Ready to unleash chaos.">>
  ELSE <<"Chaos leads to something unexpected.">>

\* callGeminiText, lines 177-188
ContentsP1(h) ==
  IF h = <<>> THEN <<[role |-> "user", text |-> <<"Hello.">>]>>
  ELSE [k \in DOMAIN h |->
          [role |-> IF h[k].sender = "user" THEN "user" ELSE "model",
           text |-> h[k].text]]

CallP1(cyc, m) ==
  [cycle |-> cyc, model |-> m, state |-> "pending", s |-> <<>>,
   payload |-> IF cyc = "single" THEN <<[role |-> "user", text |-> <<"prompt">>]>>
               ELSE ContentsP1(history)]

\* generateBotResponse (lines 288-309), generateDynamicDescription or
\* generateScenarioIdea is about to be called
InitP1 ==
  /\ Idle
  /\ api \in [fn : {"generateBotResponse"} \cup UtilsP1, rev : {4}, arg : {<<>>}]
  /\ history = <<[sender |-> "user", text |-> <<"h">>]>>

\* the function runs up to retry's first `await fn()`; generateBotResponse
\* is given a Gemini model (the aggregator models do not go through retry)
StartP1(m) ==
  /\ UNCHANGED appVars
  /\ pc = "idle"
  /\ IF api.fn \in UtilsP1 THEN m = "gemini-2.5-flash" ELSE m \in GeminiModels
  /\ pc' = "call"
  /\ cycle' = IF api.fn \in UtilsP1 THEN "single" ELSE "primary"
  /\ selectedAI' = m
  /\ target' = m
  /\ i' = 0
  /\ calls' = Append(calls, CallP1(cycle', m))
  /\ UNCHANGED <<lastError, waits, result, api, history>>

\* retry threw err: generateText moves to the fallback cycle or returns a
\* system string, a utility returns its fixed string
ThrowsP1(err) ==
  CASE cycle = "primary" ->
         /\ cycle' = "fallback"
         /\ target' = FallbackOf(selectedAI)
         /\ i' = 0
         /\ pc' = "call"
         /\ result' = result
    [] cycle = "fallback" ->
         /\ pc' = "done"
         /\ result' = FallbackFailedP1(err)
         /\ UNCHANGED <<cycle, target, i>>
    [] OTHER ->
         /\ pc' = "done"
         /\ result' = Fulfilled(Str(UtilFallbackP1(api.fn)))
         /\ UNCHANGED <<cycle, target, i>>

\* the provider call of the running attempt settles
SettlesP1(o) ==
  /\ UNCHANGED appVars
  /\ pc = "call"
  /\ LET r == CASE cycle = "primary"  -> primaryApiCallP1(o)
                [] cycle = "fallback" -> fallbackApiCallP1(o)
                [] OTHER              -> UtilCallP1(o)
         nx == RetryNextP1(r, i)
         settled == SettleLast(r)
     IN  /\ lastError' = IF r.ok THEN lastError ELSE r.s
         /\ CASE nx.next = "return" ->
                   /\ pc' = "done"
                   /\ result' = Fulfilled(Str(nx.s))
                   /\ calls' = settled
                   /\ UNCHANGED <<cycle, target, i, waits>>
              [] nx.next = "wait" ->
                   /\ pc' = "wait"
                   /\ waits' = Append(waits, [cycle |-> cycle, i |-> i,
                                              ms |-> nx.ms])
                   /\ calls' = settled
                   /\ UNCHANGED <<cycle, target, i, result>>
              [] OTHER ->
                   /\ ThrowsP1(nx.s)
                   /\ calls' = IF pc' = "call"
                               THEN Append(settled, CallP1(cycle', target'))
                               ELSE settled
                   /\ waits' = waits
  /\ UNCHANGED <<selectedAI, api, history>>

\* the backoff timer fires: i++ and the next attempt
TimerP1 ==
  /\ UNCHANGED appVars
  /\ pc = "wait"
  /\ i' = i + 1
  /\ pc' = "call"
  /\ calls' = Append(calls, CallP1(cycle, target))
  /\ UNCHANGED <<cycle, selectedAI, target, lastError, waits, result, api, history>>

NextP1 ==
  \/ \E m \in GeminiModels : StartP1(m)
  \/ \E o \in OutcomesP1 : SettlesP1(o)
  \/ TimerP1

SpecP1 == InitP1 /\ [][NextP1]_vars

\* ------------------------- src/services/storageService.ts, lines 67-118
\* three of the fields of UserData (lines 72-83)
UserDataFields == {"bots", "theme", "hasConsented"}

\* { ...existingData, ...data }
Merge(existingData, data) ==
  [f \in DOMAIN existingData \cup DOMAIN data |->
     IF f \in DOMAIN data THEN data[f] ELSE existingData[f]]

\* loadUserData, lines 100-109: the record, null when nothing is stored or
\* when getItem rejects; saveUserData's `|| {}` turns null into {}
loadUserData(ok) == IF ok THEN stored ELSE <<>>

\* nothing is stored, or a record with an old value of every field; the
\* service is not running
StoreInit ==
  /\ pc = "idle" /\ cycle = "none" /\ selectedAI = "none" /\ target = "none"
  /\ i = 0 /\ lastError = <<>> /\ calls = <<>> /\ waits = <<>>
  /\ result = Unsettled
  /\ api = [fn |-> "saveUserData", rev |-> 2, arg |-> <<>>]
  /\ history = <<>>
  /\ stored \in {<<>>, [f \in UserDataFields |-> "old"]}
  /\ tasks = <<>>

\* saveUserData({ f: "new" }) is called, one of the effects of App.tsx lines
\* 66-74, and runs up to the await of getItem; no field is saved twice
SaveStart(f) ==
  /\ \A k \in DOMAIN tasks : f \notin DOMAIN tasks[k].data
  /\ tasks' = Append(tasks, [pc |-> "load", data |-> [g \in {f} |-> "new"],
                             existingData |-> <<>>, loaded |-> FALSE,
                             saved |-> FALSE])
  /\ UNCHANGED <<serviceVars, history, stored>>

\* getItem of invocation k settles; the merged record is handed to setItem
LoadSettles(k, ok) ==
  /\ k \in DOMAIN tasks
  /\ tasks[k].pc = "load"
  /\ tasks' = [tasks EXCEPT ![k] =
                 [@ EXCEPT !.pc = "set", !.existingData = loadUserData(ok),
                           !.loaded = ok]]
  /\ UNCHANGED <<serviceVars, history, stored>>

\* setItem of invocation k settles: the record is written, or the rejection
\* is caught and logged (lines 95-98)
SetSettles(k, ok) ==
  /\ k \in DOMAIN tasks
  /\ tasks[k].pc = "set"
  /\ stored' = IF ok THEN Merge(tasks[k].existingData, tasks[k].data) ELSE stored
  /\ tasks' = [tasks EXCEPT ![k] = [@ EXCEPT !.pc = "done", !.saved = ok]]
  /\ UNCHANGED <<serviceVars, history>>

StoreNext ==
  \/ \E f \in UserDataFields : SaveStart(f)
  \/ \E k \in 1..Cardinality(UserDataFields), ok \in BOOLEAN : LoadSettles(k, ok)
  \/ \E k \in 1..Cardinality(UserDataFields), ok \in BOOLEAN : SetSettles(k, ok)

StoreSpec == StoreInit /\ [][StoreNext]_vars

\* ------------------------------- ChatView, src/unnamed/part_008 lines 455-647
\* In this specification `history` is chatHistories[bot.id] of App's state,
\* the chatHistory prop of ChatView, and each message has its id.
MessageIds(h) == {h[k].id : k \in DOMAIN h}

\* the id of the next message created (`user-${Date.now()}`, `bot-...`)
FreshId ==
  1 + Max({1} \cup MessageIds(history)
              \cup {tasks[k].user : k \in DOMAIN tasks}
              \cup {tasks[k].reply : k \in DOMAIN tasks})

\* App.handleNewMessage, lines 195-200: appended to the state of that moment
handleNewMessage(prev, message) == Append(prev, message)

\* App.handleUpdateHistory, lines 202-207: the state is replaced
handleUpdateHistory(prev, newHistory) == newHistory

\* handleRegenerateMessage, lines 639-641: the captured history with the
\* text of the message replaced
RegeneratedHistory(chatHistory, messageId, text) ==
  [k \in DOMAIN chatHistory |->
     IF chatHistory[k].id = messageId
     THEN [chatHistory[k] EXCEPT !.text = text] ELSE chatHistory[k]]

\* handleDeleteMessage, line 624
FilteredHistory(chatHistory, messageId) ==
  SelectSeq(chatHistory, LAMBDA m : m.id # messageId)

\* the chat holds the bot's opening message; no handler is running
ChatInit ==
  /\ pc = "idle" /\ cycle = "none" /\ selectedAI = "none" /\ target = "none"
  /\ i = 0 /\ lastError = <<>> /\ calls = <<>> /\ waits = <<>>
  /\ result = Unsettled
  /\ api = [fn |-> "ChatView", rev |-> 1, arg |-> <<>>]
  /\ history = <<[id |-> 1, sender |-> "bot", text |-> <<"h">>]>>
  /\ stored = <<>>
  /\ tasks = <<>>

Handler(fn, messageId, user) ==
  [fn |-> fn, pc |-> "await", chatHistory |-> history,
   messageId |-> messageId, user |-> user, reply |-> 0]

\* handleSend, lines 573-588: the user message is appended to the rendered
\* history, then generateBotResponse is awaited
handleSend ==
  /\ Len(tasks) < MaxHandlers
  /\ history' = handleUpdateHistory(history,
                  Append(history, [id |-> FreshId, sender |-> "user",
                                   text |-> <<"h">>]))
  /\ tasks' = Append(tasks, Handler("handleSend", 0, FreshId))
  /\ UNCHANGED <<serviceVars, stored>>

\* handleSend, lines 590-597: the reply is delivered with onNewMessage
SendSettles(k, text) ==
  /\ k \in DOMAIN tasks
  /\ tasks[k].fn = "handleSend" /\ tasks[k].pc = "await"
  /\ history' = handleNewMessage(history, [id |-> FreshId, sender |-> "bot",
                                           text |-> text])
  /\ tasks' = [tasks EXCEPT ![k] = [@ EXCEPT !.pc = "done", !.reply = FreshId]]
  /\ UNCHANGED <<serviceVars, stored>>

\* handleRegenerateMessage, lines 630-637, on a bot message of the rendered
\* history
handleRegenerateMessage(messageId) ==
  /\ Len(tasks) < MaxHandlers
  /\ \E k \in DOMAIN history :
       history[k].id = messageId /\ history[k].sender = "bot"
  /\ tasks' = Append(tasks, Handler("handleRegenerateMessage", messageId, 0))
  /\ UNCHANGED <<serviceVars, stored, history>>

\* handleRegenerateMessage, lines 637-641
RegenerateSettles(k, text) ==
  /\ k \in DOMAIN tasks
  /\ tasks[k].fn = "handleRegenerateMessage" /\ tasks[k].pc = "await"
  /\ history' = handleUpdateHistory(history,
                  RegeneratedHistory(tasks[k].chatHistory, tasks[k].messageId,
                                     text))
  /\ tasks' = [tasks EXCEPT ![k] = [@ EXCEPT !.pc = "done"]]
  /\ UNCHANGED <<serviceVars, stored>>

\* handleDeleteMessage, lines 621-623: the 300 ms timer is started
handleDeleteMessage(messageId) ==
  /\ Len(tasks) < MaxHandlers
  /\ messageId \in MessageIds(history)
  /\ tasks' = Append(tasks, Handler("handleDeleteMessage", messageId, 0))
  /\ UNCHANGED <<serviceVars, stored, history>>

\* handleDeleteMessage, lines 623-627: the timer fires
DeleteFires(k) ==
  /\ k \in DOMAIN tasks
  /\ tasks[k].fn = "handleDeleteMessage" /\ tasks[k].pc = "await"
  /\ history' = handleUpdateHistory(history,
                  FilteredHistory(tasks[k].chatHistory, tasks[k].messageId))
  /\ tasks' = [tasks EXCEPT ![k] = [@ EXCEPT !.pc = "done"]]
  /\ UNCHANGED <<serviceVars, stored>>

ChatNext ==
  \/ handleSend
  \/ \E k \in 1..MaxHandlers, s \in {<<"h">>, MSG_BUSY_TRY_AGAIN} :
       SendSettles(k, s)
  \/ \E m \in 1..(2 * MaxHandlers + 1) : handleRegenerateMessage(m)
  \/ \E k \in 1..MaxHandlers, s \in {<<"h">>, MSG_BUSY_TRY_AGAIN} :
       RegenerateSettles(k, s)
  \/ \E m \in 1..(2 * MaxHandlers + 1) : handleDeleteMessage(m)
  \/ \E k \in 1..MaxHandlers : DeleteFires(k)

ChatSpec == ChatInit /\ [][ChatNext]_vars

TypeOK ==
  /\ pc \in {"idle", "call", "wait", "done"}
  /\ cycle \in {"none", "openrouter", "venice", "primary", "fallback", "single"}
  /\ i \in 0..RETRY_LIMIT
  /\ api.rev \in {1, 2, 3, 4}
  /\ result.status \in {"pending", "resolved", "rejected"}

\* ------------------------------------------------- helpers of the claims
\* the calls / the timers of one retry cycle, in order
CycleCalls(cyc) == SelectSeq(calls, LAMBDA c : c.cycle = cyc)

CycleWaits(cyc) == SelectSeq(waits, LAMBDA w : w.cycle = cyc)

\* the call ended, and not with a result that retry returns
CallFailed(c) ==
  c.state = "thrown" \/ (c.state = "ok" /\ Trim(c.s) = <<>>)

\* the call ended with a result that retry returns
CallSucceeded(c) == c.state = "ok" /\ Trim(c.s) # <<>>

\* the retry cycle cyc has thrown
CycleThrew(cyc) ==
  \/ cyc = "primary" /\ cycle = "fallback"
  \/ /\ cyc = "fallback" /\ cycle = "fallback" /\ pc = "done"
     /\ CallFailed(calls[Len(calls)])

\* every attempt of the cycle so far failed with a 429 error
AllRateLimited(cyc) ==
  /\ CycleCalls(cyc) # <<>>
  /\ \A k \in DOMAIN CycleCalls(cyc) :
       CycleCalls(cyc)[k].state = "thrown" /\ Includes(CycleCalls(cyc)[k].s, "429")

NonDecreasing(ws) == \A k \in 1..(Len(ws) - 1) : ws[k].ms <= ws[k + 1].ms

ModelsCalled == {calls[k].model : k \in DOMAIN calls}

\* errors that are neither rate limits, nor 5xx / network, nor malformed
\* bodies: invalid credentials, invalid request
FatalErrors == {ERR_KEY}

\* ----------------------------------------------------------------- claims
\* C1: a settled generateBotResponse call is resolved, with a string, for
\* every selected model and every sequence of provider outcomes; it never
\* rejects.
C1_ResolvesToString ==
  /\ pc = "done" => result.status = "resolved" /\ result.val.type = "string"
  /\ result.status # "rejected"

C1_Witness ==
  /\ pc = "done" /\ cycle = "fallback"
  /\ \A k \in DOMAIN calls : calls[k].state = "thrown" /\ calls[k].s = ERR_500
  /\ result = Fulfilled(Str(MSG_BUSY_TRY_AGAIN))

\* C2: one generateText call sends provider calls to at most two distinct
\* models, and to exactly two once the primary and the fallback cycle have
\* both exhausted their retries, even where fallbackModelMap chains on.
C2_FallbackAtMostOnce ==
  /\ Cardinality(ModelsCalled) <= 2
  /\ CycleThrew("fallback") => Cardinality(ModelsCalled) = 2

C2_Witness ==
  /\ selectedAI = "gemini-2.5-pro"
  /\ CycleThrew("fallback")
  /\ ModelsCalled = {"gemini-2.5-pro", "gemini-2.5-flash"}

\* C3: a call that was issued eventually settles (given that provider calls
\* and timers complete), and no retry cycle invokes its callback more than
\* RETRY_LIMIT times.
C3_Terminates ==
  /\ (pc # "idle") ~> (pc = "done")
  /\ [](\A cyc \in {"primary", "fallback"} : Len(CycleCalls(cyc)) <= RETRY_LIMIT)

C3_Witness ==
  /\ pc = "done"
  /\ Len(CycleCalls("primary")) = RETRY_LIMIT
  /\ Len(CycleCalls("fallback")) = RETRY_LIMIT
  /\ CallSucceeded(calls[Len(calls)])

\* C4: one generateText call makes at most 2 x RETRY_LIMIT provider calls: at
\* most RETRY_LIMIT to the primary model and at most RETRY_LIMIT to the
\* fallback model.
C4_AtMostTwiceRetryLimit ==
  /\ Len(calls) <= 2 * RETRY_LIMIT
  /\ \A m \in ModelsCalled :
       Len(SelectSeq(calls, LAMBDA c : c.model = m)) <= RETRY_LIMIT

C4_Witness ==
  /\ Len(calls) = 2 * RETRY_LIMIT
  /\ Len(SelectSeq(calls, LAMBDA c : c.model = selectedAI)) = RETRY_LIMIT
  /\ Len(SelectSeq(calls, LAMBDA c : c.model = FallbackOf(selectedAI))) = RETRY_LIMIT

\* C5: a retry cycle all of whose attempts failed with a 429 error has made
\* exactly RETRY_LIMIT attempts when it throws, and its backoff waits never
\* decrease from one attempt to the next.
C5_RateLimitedCycle ==
  \A cyc \in {"primary", "fallback"} :
    AllRateLimited(cyc) =>
      /\ NonDecreasing(CycleWaits(cyc))
      /\ CycleThrew(cyc) => Len(CycleCalls(cyc)) = RETRY_LIMIT

C5_Witness ==
  /\ AllRateLimited("fallback") /\ CycleThrew("fallback")
  /\ Len(CycleWaits("fallback")) = RETRY_LIMIT

\* C6: retry never returns a string whose trimmed text is empty: an attempt
\* that resolved to an empty or blank string is recorded as the failure
\* "Empty AI response." and followed by a backoff wait, and the Gemini path
\* of generateText never resolves to an empty string.
C6_NeverEmpty ==
  /\ (pc = "done" /\ cycle \in {"primary", "fallback"}) =>
       Trim(result.val.s) # <<>>
  /\ \A k \in DOMAIN calls :
       (calls[k].state = "ok" /\ Trim(calls[k].s) = <<>>) =>
          /\ Len(waits) >= k
          /\ (k = Len(calls) /\ pc = "wait") => lastError = MSG_EMPTY_AI

C6_Witness ==
  /\ pc = "done" /\ cycle = "fallback"
  /\ \E k \in DOMAIN calls : calls[k].state = "ok" /\ calls[k].s = <<>>

\* C7: an attempt that failed with a fatal error is the last attempt of its
\* retry cycle, and no backoff timer is started for it.
C7_FatalNotRetried ==
  \A k \in DOMAIN calls :
    (calls[k].state = "thrown" /\ calls[k].s \in FatalErrors) =>
       /\ Len(waits) < k
       /\ k < Len(calls) => calls[k + 1].cycle # calls[k].cycle

\* C8: when the selected Gemini model has no entry in fallbackModelMap, no
\* provider call goes to any other model.
C8_NoEdgeNoSecondModel ==
  (selectedAI \in GeminiModels /\ selectedAI \notin DOMAIN fallbackModelMap) =>
     ModelsCalled \subseteq {selectedAI}

\* C9: when the first attempt on the primary model returns a non-empty text,
\* the call resolves to that text after that one provider call, with no
\* backoff wait and no fallback call.
C9_FirstAttemptSuccess ==
  (Len(calls) >= 1 /\ calls[1].cycle = "primary" /\ CallSucceeded(calls[1])) =>
     /\ pc = "done"
     /\ result = Fulfilled(Str(calls[1].s))
     /\ Len(calls) = 1
     /\ waits = <<>>

C9_Witness ==
  /\ Len(calls) = 1 /\ calls[1].cycle = "primary"
  /\ calls[1].state = "ok" /\ calls[1].s = <<"h">>
  /\ result = Fulfilled(Str(<<"h">>))

\* C10: when every primary attempt fails with a 429 error and the fallback
\* model succeeds, the call resolves to the fallback's text and the primary
\* was attempted exactly RETRY_LIMIT times; a fallback call is made only
\* after RETRY_LIMIT primary attempts have failed.
C10_FallbackAfterExhaustion ==
  /\ (/\ pc = "done" /\ cycle = "fallback" /\ AllRateLimited("primary")
      /\ CallSucceeded(calls[Len(calls)])) =>
        /\ result = Fulfilled(Str(calls[Len(calls)].s))
        /\ Len(CycleCalls("primary")) = RETRY_LIMIT
  /\ \A k \in DOMAIN calls :
       calls[k].cycle = "fallback" =>
         /\ k > RETRY_LIMIT
         /\ \A j \in 1..RETRY_LIMIT :
              calls[j].cycle = "primary" /\ CallFailed(calls[j])

C10_Witness ==
  /\ pc = "done" /\ cycle = "fallback" /\ AllRateLimited("primary")
  /\ Len(calls) = RETRY_LIMIT + 1
  /\ calls[Len(calls)].model = FallbackOf(selectedAI)
  /\ result = Fulfilled(Str(<<"h">>))

\* the call is settled and no provider call ended with a usable text
RequestFailed ==
  /\ pc = "done"
  /\ calls # <<>> => ~CallSucceeded(calls[Len(calls)])

\* the messages the code returns for a failure whatever the provider said
GenericFailureStrings == {MSG_BUSY_TRY_AGAIN, MSG_BUSY}

\* the failure strings that embed nothing the provider supplied
FixedFailureStrings ==
  {MSG_BUSY_TRY_AGAIN, MSG_BUSY, MSG_OR_UNSUPPORTED, MSG_OR_KEY, MSG_OR_429,
   MSG_OR_5XX, MSG_OR_EMPTY, MSG_OR_BUSY}

\* the aggregator statuses that callOpenRouter has no fixed message for
UnclassifiedStatuses ==
  {st \in HttpStatuses : st # 401 /\ st # 403 /\ st # 429 /\ st < 500}

\* the error texts that come from the providers and the runtime
ProviderErrorTexts == GeminiErrors \cup {ERR_NO_TEXT, ERR_FETCH, ERR_JSON}

\* C11: a call whose retries were all exhausted by 429 errors resolves to a
\* rate-limit message, different from the message of every other failure.
C11_RateLimitMessageDistinct ==
  (/\ CycleThrew("fallback")
   /\ AllRateLimited("primary") /\ AllRateLimited("fallback")) =>
     result.val.s \notin GenericFailureStrings

\* C12 (as claimed): every failure result is one of the fixed failure
\* strings, independent of the HTTP status and of the provider's error text.
C12_OnlyFixedStrings ==
  RequestFailed => result.val.s \in FixedFailureStrings

\* C12 (amended): every failure result is one of the fixed failure strings
\* or, for an aggregator HTTP status other than 401, 403, 429 and 5xx, the
\* string "(System: HTTP <status>)"; the Gemini path always fails with the
\* one busy string, and no provider error text is ever returned.
C12_FixedOrHttpStatus ==
  RequestFailed =>
    /\ result.val.s \in
         FixedFailureStrings \cup {MsgHttp(st) : st \in UnclassifiedStatuses}
    /\ result.val.s \notin ProviderErrorTexts
    /\ cycle \in {"primary", "fallback"} => result.val.s = MSG_BUSY_TRY_AGAIN

C12_Witness ==
  /\ RequestFailed /\ cycle = "openrouter"
  /\ calls[1].state = "thrown"
  /\ result = Fulfilled(Str(MsgHttp(404)))

\* C13: a request for an aggregator-routed model makes exactly one provider
\* call, starts no backoff timer, calls no other model, and on failure
\* resolves to the message of that call's error.
C13_AggregatorSingleShot ==
  selectedAI \in OPENROUTER_MODELS =>
    /\ Len(calls) = 1
    /\ waits = <<>>
    /\ calls[1].model = selectedAI
    /\ calls[1].state # "pending" => pc = "done"
    /\ calls[1].state = "thrown" => result = Fulfilled(Str(calls[1].s))

C13_Witness ==
  /\ selectedAI = "mistralai-devstral-2512"
  /\ pc = "done"
  /\ calls[1].state = "thrown" /\ calls[1].s = MSG_OR_429
  /\ result = Fulfilled(Str(MSG_OR_429))

\* C14: at every attempt index, the wait after a rate-limit failure is at
\* least as long as the wait retry performs at that index after any other
\* retryable failure (another error, an empty response).
C14_RateLimitWaitsLonger ==
  \A k \in DOMAIN waits :
    (calls[k].state = "thrown" /\ IsRateLimit(calls[k].s)) =>
       \A r \in {Thrown(ERR_500), Thrown(ERR_KEY), Thrown(MSG_EMPTY_GEMINI),
                 Resolved(<<>>)} :
         waits[k].ms >= RetryDelay(r, waits[k].i)

C14_Witness ==
  /\ Len(waits) = 2 * RETRY_LIMIT
  /\ \A k \in DOMAIN waits :
       /\ calls[k].state = "thrown"
       /\ (k % 2 = 1) <=> IsRateLimit(calls[k].s)

\* the provider calls of the text path (generateText)
TextCycles == {"openrouter", "venice", "primary", "fallback"}

\* C15: for an empty history every payload of the text path has a user
\* turn: callGeminiText sends exactly the one placeholder user turn, and
\* callOpenRouter the system message followed by exactly one placeholder
\* user message, on every retry attempt and on the fallback model.
C15_PlaceholderInjected ==
  history = <<>> =>
    \A k \in DOMAIN calls :
      calls[k].cycle \in TextCycles =>
        /\ \E j \in DOMAIN calls[k].payload : calls[k].payload[j].role = "user"
        /\ calls[k].cycle \in {"primary", "fallback"} =>
             calls[k].payload = <<[role |-> "user", text |-> <<"Yo.">>]>>
        /\ calls[k].cycle \in {"openrouter", "venice"} =>
             /\ Len(calls[k].payload) = 2
             /\ calls[k].payload[1].role = "system"
             /\ calls[k].payload[2] = [role |-> "user", text |-> <<"Hello.">>]

C15_Witness ==
  /\ api.fn = "generateBotResponse" /\ history = <<>>
  /\ Len(calls) = 2 * RETRY_LIMIT
  /\ calls[2 * RETRY_LIMIT].cycle = "fallback"
  /\ calls[2 * RETRY_LIMIT].payload = <<[role |-> "user", text |-> <<"Yo.">>]>>

\* C16: no step of a public function changes the caller's history array: it
\* keeps its length, its turns and their order through retries, the fallback
\* and the injection of the placeholder.
C16_HistoryNotMutated == [][history' = history]_vars

C16_Witness ==
  /\ api.fn = "generateBotResponse" /\ pc = "done"
  /\ history = <<[sender |-> "user", text |-> <<"h">>],
                 [sender |-> "bot", text |-> <<"h">>]>>
  /\ Len(CycleCalls("primary")) = RETRY_LIMIT
  /\ Len(CycleCalls("fallback")) = RETRY_LIMIT

\* C18: a settled generateStory call is resolved with a string, also when
\* the primary and the fallback cycle both exhausted their retries.
C18_StoryNeverRejects ==
  (api.fn = "generateStory" /\ pc = "done") =>
     result.status = "resolved" /\ result.val.type = "string"

\* C19: generateDynamicDescription, generateScenarioIdea and
\* generateCodePrompt make one provider call and never reject; when that call
\* fails each resolves to its own fixed string, whatever the error.
C19_UtilityFallbacks ==
  (api.fn \in TextUtils /\ pc = "done") =>
     /\ result.status = "resolved"
     /\ Len(calls) = 1
     /\ calls[1].state = "thrown" =>
          result.val =
            Str(CASE api.fn = "generateDynamicDescription" -> <<"Ready to talk.">>
                  [] api.fn = "generateScenarioIdea" -> <<"Something unexpected happens.">>
                  [] api.fn = "generateCodePrompt" -> <<"Error.">>)

C19_Witness ==
  /\ api.fn = "generateScenarioIdea" /\ pc = "done"
  /\ calls[1].state = "thrown" /\ calls[1].s = ERR_NO_TEXT
  /\ result = Fulfilled(Str(<<"Something unexpected happens.">>))

\* C20: when the image response has no inline-image part, generateImage
\* rejects, after exactly one provider call, with an error that differs from
\* the one it rejects with for a transport or provider failure.
C20_ImageMissingClassified ==
  (/\ api.fn = "generateImage" /\ pc = "done"
   /\ calls[1].state = "thrown" /\ calls[1].s = MSG_IMAGE_MISSING) =>
     /\ result.status = "rejected"
     /\ Len(calls) = 1
     /\ \A e \in GeminiErrors : result # generateImage(Thrown(e))

\* one generateBotResponse call running alone on model sel, fed the
\* settlements rs of its provider calls in order: whether it has settled,
\* with what, and after how many provider calls
RECURSIVE RunAlone(_, _, _, _, _, _)
RunAlone(sel, cyc, tgt, k, rs, used) ==
  IF rs = <<>>
  THEN [done |-> FALSE, result |-> Unsettled, used |-> used]
  ELSE LET r == [ok |-> Head(rs).state = "ok", s |-> Head(rs).s]
       IN  IF r.ok /\ Trim(r.s) # <<>>
           THEN [done |-> TRUE, result |-> Fulfilled(Str(r.s)), used |-> used + 1]
           ELSE IF k + 1 < RETRY_LIMIT
                THEN RunAlone(sel, cyc, tgt, k + 1, Tail(rs), used + 1)
                ELSE IF cyc = "primary"
                     THEN RunAlone(sel, "fallback", FallbackOf(sel), 0,
                                   Tail(rs), used + 1)
                     ELSE [done |-> TRUE,
                           result |-> Fulfilled(Str(MSG_BUSY_TRY_AGAIN)),
                           used |-> used + 1]

\* the provider calls of call c that have settled
SettledCalls(c) == SelectSeq(calls[c], LAMBDA e : e.state # "pending")

\* C17: with two calls in flight, in any interleaving, each call makes the
\* number of provider calls and settles with the result that it would alone
\* with the same provider outcomes, and while its provider call is in flight
\* it has not settled.
C17_CallsIndependent ==
  \A c \in CallIds :
    LET alone == RunAlone(selectedAI[c], "primary", selectedAI[c], 0,
                          SettledCalls(c), 0)
    IN  /\ pc[c] = "done" =>
             /\ alone.done
             /\ alone.result = result[c]
             /\ alone.used = Len(calls[c])
        /\ pc[c] = "call" => ~alone.done /\ Len(calls[c]) = alone.used + 1
        /\ pc[c] = "wait" => alone.used = Len(calls[c])

C17_Witness ==
  /\ pc[1] = "wait" /\ Len(calls[1]) = 2
  /\ pc[2] = "done" /\ Len(calls[2]) = 2 * RETRY_LIMIT
  /\ result[2] = Fulfilled(Str(MSG_BUSY_TRY_AGAIN))

\* C21: the string generateUserResponseSuggestion resolves to contains no
\* double-quote character, whether it comes from a provider text, from
\* generateText's failure string or from the catch fallback.
C21_NoDoubleQuote ==
  (api.fn = "generateUserResponseSuggestion" /\ pc = "done") =>
     /\ result.status = "resolved"
     /\ result.val.type = "string"
     /\ ~Includes(result.val.s, QUOTE)

C21_Witness ==
  /\ api.fn = "generateUserResponseSuggestion" /\ pc = "done"
  /\ calls[Len(calls)].state = "ok"
  /\ calls[Len(calls)].s = <<QUOTE, QUOTE>>
  /\ result = Fulfilled(Str(<<>>))

\* C22: retry starts a backoff timer only when another attempt follows: no
\* wait after the last failed attempt of a cycle, so a cycle of N failed
\* attempts has N - 1 waits.
C22_WaitsOnlyBetweenAttempts ==
  /\ \A k \in DOMAIN waits : waits[k].i < RETRY_LIMIT - 1
  /\ pc = "wait" => LoopContinues(i + 1)
  /\ \A cyc \in {"primary", "fallback", "venice"} :
       (pc = "done" /\ CycleCalls(cyc) # <<>>
          /\ \A k \in DOMAIN CycleCalls(cyc) : CallFailed(CycleCalls(cyc)[k]))
       => Len(CycleWaits(cyc)) = Len(CycleCalls(cyc)) - 1

\* the rate-limit markers of the claim
RateLimitMarkers ==
  {"429", "Quota exceeded", "RESOURCE_EXHAUSTED", "Too Many Requests"}

\* C23: retry of lines 37-59 gives a failed attempt the backoff
\* RETRY_DELAYS[i] whenever the error message contains one of the markers
\* "429", "Quota exceeded", "RESOURCE_EXHAUSTED", "Too Many Requests".
C23_MarkersRateLimited ==
  \A k \in DOMAIN waits :
    (calls[k].state = "thrown"
       /\ \E mk \in RateLimitMarkers : Includes(calls[k].s, mk))
    => waits[k].ms = RETRY_DELAYS[waits[k].i + 1]

\* the cycle cyc of part_001's retry has ended with a throw
CycleThrewP1(cyc) ==
  /\ CycleCalls(cyc) # <<>>
  /\ CycleCalls(cyc)[Len(CycleCalls(cyc))].state = "thrown"
  /\ \/ pc = "done"
     \/ cyc = "primary" /\ cycle = "fallback"

\* every attempt of the cycle failed with a 429 / Quota / ResourceExhausted
\* error
AllQuotaP1(cyc) ==
  \A k \in DOMAIN CycleCalls(cyc) :
    CycleCalls(cyc)[k].state = "thrown" /\ isQuotaP1(CycleCalls(cyc)[k].s)

\* C24: in part_001's retry, when every attempt of a cycle fails with a
\* 429 / Quota / ResourceExhausted error, the cycle makes exactly 2 attempts
\* with one wait of RETRY_DELAYS[0] between them and then throws the
\* heavy-traffic system error.
C24_RateLimitedRetriedOnce ==
  \A cyc \in {"primary", "fallback", "single"} :
    (CycleThrewP1(cyc) /\ AllQuotaP1(cyc)) =>
       /\ Len(CycleCalls(cyc)) = 2
       /\ CycleWaits(cyc) = <<[cycle |-> cyc, i |-> 0, ms |-> RETRY_DELAYS_P1[1]]>>
       /\ (cyc = "fallback" => result = Fulfilled(Str(MSG_P1_HEAVY)))

C24_Witness ==
  /\ CycleThrewP1("primary") /\ AllQuotaP1("primary")
  /\ CycleThrewP1("fallback") /\ AllQuotaP1("fallback")
  /\ calls[1].s = ERR_P1_QUOTA
  /\ Len(calls) = 4 /\ Len(waits) = 2

\* the provider gave call c an empty or white-space-only text
EmptyTextP1(c) ==
  /\ c.state = "thrown"
  /\ c.s \in {MSG_P1_EMPTY_RAW, MSG_P1_EMPTY, MSG_P1_EMPTY_FALLBACK}

\* C25: in part_001, generateText, generateDynamicDescription and
\* generateScenarioIdea never resolve to an empty string, and an empty
\* response is not retried, on the primary call as on the fallback call.
C25_NoEmptySuccess ==
  /\ pc = "done" => result.status = "resolved" /\ Trim(result.val.s) # <<>>
  /\ \A k \in 1..(Len(calls) - 1) :
       EmptyTextP1(calls[k]) => calls[k + 1].cycle # calls[k].cycle

\* C26: in generateText of lines 776-819, when the Venice cycle has
\* exhausted its retries, a retry cycle on gemini-2.5-flash, the fallback
\* that fallbackModelMap declares for Venice, runs before a failure is
\* reported.
C26_VeniceEdgeTaken ==
  (/\ api.rev = 3 /\ selectedAI = "venice-dolphin-mistral-24b" /\ pc = "done"
   /\ \A k \in DOMAIN CycleCalls("venice") : CallFailed(CycleCalls("venice")[k]))
  => /\ CycleCalls("fallback") # <<>>
     /\ \A k \in DOMAIN CycleCalls("fallback") :
          CycleCalls("fallback")[k].model =
            fallbackModelMapR3["venice-dolphin-mistral-24b"]

\* C27: once every saveUserData call has completed, none having met a
\* storage failure, the stored record holds the saved value of every field
\* that was saved, however the loads and the setItems interleaved.
C27_NoSaveLost ==
  (/\ tasks # <<>>
   /\ \A k \in DOMAIN tasks :
        tasks[k].pc = "done" /\ tasks[k].loaded /\ tasks[k].saved)
  => \A k \in DOMAIN tasks : \A f \in DOMAIN tasks[k].data :
       f \in DOMAIN stored /\ stored[f] = tasks[k].data[f]

\* C28: when the load of a saveUserData call failed, the fields stored
\* before its setItem and not passed to it are still stored, unchanged,
\* after it.
C28_FailedReadKeepsFields ==
  [][\A k \in DOMAIN tasks :
       (tasks[k].pc = "set" /\ ~tasks[k].loaded /\ tasks'[k].pc = "done"
          /\ tasks'[k].saved)
       => \A f \in DOMAIN stored \ DOMAIN tasks[k].data :
            f \in DOMAIN stored' /\ stored'[f] = stored[f]]_vars

\* C29: in generateText of lines 187-224 every call of the fallback cycle
\* goes to a model other than the selected one, whether or not the selected
\* model has an entry in fallbackModelMap.
C29_FallbackDiffersFromPrimary ==
  \A k \in DOMAIN calls :
    calls[k].cycle = "fallback" =>
      /\ calls[k].model # selectedAI
      /\ calls[k].model = target

C29_Witness ==
  /\ selectedAI = "gemini-flash-lite-latest"
  /\ selectedAI \notin DOMAIN fallbackModelMap
  /\ Len(CycleCalls("primary")) = RETRY_LIMIT
  /\ Len(CycleCalls("fallback")) = RETRY_LIMIT
  /\ pc = "done"

\* the messages a handleDeleteMessage call was asked to delete
DeletedIds ==
  {tasks[k].messageId : k \in {j \in DOMAIN tasks :
                                 tasks[j].fn = "handleDeleteMessage"}}

\* C30: once every handler has completed, the history holds every user
\* message sent and every bot reply delivered by handleSend, except those
\* explicitly deleted, in the order they were appended.
C30_NoReplyLost ==
  (tasks # <<>> /\ \A k \in DOMAIN tasks : tasks[k].pc = "done") =>
     /\ \A k \in DOMAIN tasks :
          tasks[k].fn = "handleSend" =>
            {tasks[k].user, tasks[k].reply} \subseteq
              MessageIds(history) \cup DeletedIds
     /\ \A a, b \in DOMAIN history : a < b => history[a].id < history[b].id

====
